---- MODULE Spec2Model ----
(***************************************************************************)
(* Model of sj_sync.position_sync.PositionSync: the in-memory position     *)
(* ledger (one dict per instrument class, keyed by account key) that is    *)
(* loaded from the venue client at construction and then mutated by the    *)
(* deal callback on_order_deal_event, and read by list_positions.          *)
(*                                                                         *)
(* Python dicts are modelled as functions whose DOMAIN is the set of keys  *)
(* present; a dict.get("f", default) on event data is modelled with the    *)
(* set of fields the event carries.  A list returned by list_positions is  *)
(* modelled by the set of its elements (no claim depends on its order).    *)
(***************************************************************************)
EXTENDS Integers, Sequences, FiniteSets, TLC

(* ------------------------------ bounds --------------------------------- *)
\* largest quantity carried by a deal event or an authoritative record
MaxQty == 2
\* number of callback deliveries explored in one behaviour of Spec
MaxDeals == 2
\* number of deliveries on one key explored in one behaviour of SpecSeq
MaxSeq == 4
\* seconds the clock advances in one behaviour of SpecRead
MaxTime == 2

(* ------------------------- enums of shioaji ---------------------------- *)
\* shioaji.constant.Action members
ActionEnum == {"Buy", "Sell"}
\* shioaji.constant.StockOrderCond members used by the ledger
StockOrderCond == {"Cash", "MarginTrading", "ShortSelling"}
\* shioaji.account.AccountType members
AccountType == {"Stock", "Future"}
\* shioaji.constant.OrderState members delivered to the callback
OrderState == {"StockOrder", "StockDeal", "FuturesOrder", "FuturesDeal"}

(* ------------------------------ dicts ---------------------------------- *)
EmptyDict == [k \in {} |-> 0]

DictSet(d, key, value) ==
    [k \in (DOMAIN d) \cup {key} |-> IF k = key THEN value ELSE d[k]]

DictDel(d, key) == [k \in (DOMAIN d) \ {key} |-> d[k]]

\* dict.get(field, default) on event data: Present is the set of fields
Get(d, field, default) == IF field \in d.present THEN d[field] ELSE default

(* ----------------------------- accounts -------------------------------- *)
\* The value None for an optional account (api.stock_account is None)
NoAccount == [broker_id |-> "", account_id |-> "", account_type |-> "None"]

StockAcc1 == [broker_id |-> "9100", account_id |-> "ACC1", account_type |-> "Stock"]
StockAcc2 == [broker_id |-> "9100", account_id |-> "ACC2", account_type |-> "Stock"]
FutAcc1   == [broker_id |-> "F002", account_id |-> "FUT1", account_type |-> "Future"]

Accounts == {StockAcc1, StockAcc2, FutAcc1}

\* the account dict a deal event carries for an Account
AccountDict(a) ==
    [present |-> {"broker_id", "account_id"},
     broker_id |-> a.broker_id, account_id |-> a.account_id]

\* account == None / key missing from the event
NoAccountDict == [present |-> {}, broker_id |-> "", account_id |-> ""]

\* (mutation of _get_account_key: the account id is left out of the key)
_get_account_key_BrokerOnly(account) == account.broker_id

_get_account_key(account) == account.broker_id \o account.account_id

(* ----------------------------- positions ------------------------------- *)
\* sj_sync.models.StockPosition as constructed by position_sync.py
\* the yesterday-offset a StockPosition gets when the constructor is not given one
DefaultYdOffsetQuantity == 0

\* (mutation of StockPosition: the quantity is also booked as offset of
\* yesterday's quantity)
StockPosition_OffsetIsQuantity(code, direction, quantity, yd_quantity, cond) ==
    [code |-> code, direction |-> direction, quantity |-> quantity,
     yd_quantity |-> yd_quantity, cond |-> cond,
     yd_offset_quantity |-> quantity]

\* (position_sync.py never passes yd_offset_quantity: the default applies)
StockPosition(code, direction, quantity, yd_quantity, cond) ==
    [code |-> code, direction |-> direction, quantity |-> quantity,
     yd_quantity |-> yd_quantity, cond |-> cond,
     yd_offset_quantity |-> DefaultYdOffsetQuantity]

\* sj_sync.models.FuturesPosition as constructed by position_sync.py
FuturesPosition(code, direction, quantity) ==
    [code |-> code, direction |-> direction, quantity |-> quantity]

\* dict.get(key) returning None
NoPosition ==
    [code |-> "", direction |-> "", quantity |-> 0, yd_quantity |-> 0, cond |-> "",
     yd_offset_quantity |-> 0]

\* a record of api.list_positions(); class is the class isinstance() sees
Pnl(class, code, direction, quantity, yd_quantity, cond) ==
    [class |-> class, code |-> code, direction |-> direction,
     quantity |-> quantity, yd_quantity |-> yd_quantity, cond |-> cond]

(* ------------------------- _initialize_positions ----------------------- *)
\* (mutation of LoadStockPnl: yesterday's quantity is not copied)
LoadStockPnl_DropsYd(sp, account_key, pnl) ==
    IF pnl.class = "StockPosition"
    THEN LET position == StockPosition(pnl.code, pnl.direction, pnl.quantity,
                                       0, pnl.cond)
             sp1 == IF account_key \notin DOMAIN sp
                    THEN DictSet(sp, account_key, EmptyDict) ELSE sp
             key == <<position.code, position.cond>>
         IN  DictSet(sp1, account_key, DictSet(sp1[account_key], key, position))
    ELSE sp

\* body of the loop over positions_pnl of a Stock account (lines 81-93)
LoadStockPnl(sp, account_key, pnl) ==
    IF pnl.class = "StockPosition"
    THEN LET position == StockPosition(pnl.code, pnl.direction, pnl.quantity,
                                       pnl.yd_quantity, pnl.cond)
             sp1 == IF account_key \notin DOMAIN sp
                    THEN DictSet(sp, account_key, EmptyDict) ELSE sp
             key == <<position.code, position.cond>>
         IN  DictSet(sp1, account_key, DictSet(sp1[account_key], key, position))
    ELSE sp

\* body of the loop over positions_pnl of a Future account (lines 96-105)
LoadFuturePnl(fp, account_key, pnl) ==
    IF pnl.class = "FuturePosition"
    THEN LET position == FuturesPosition(pnl.code, pnl.direction, pnl.quantity)
             fp1 == IF account_key \notin DOMAIN fp
                    THEN DictSet(fp, account_key, EmptyDict) ELSE fp
         IN  DictSet(fp1, account_key,
                     DictSet(fp1[account_key], position.code, position))
    ELSE fp

RECURSIVE LoadStockPnls(_, _, _, _)
LoadStockPnls(sp, account_key, pnls, i) ==
    IF i > Len(pnls) THEN sp
    ELSE LoadStockPnls(LoadStockPnl(sp, account_key, pnls[i]), account_key, pnls, i + 1)

RECURSIVE LoadFuturePnls(_, _, _, _)
LoadFuturePnls(fp, account_key, pnls, i) ==
    IF i > Len(pnls) THEN fp
    ELSE LoadFuturePnls(LoadFuturePnl(fp, account_key, pnls[i]), account_key, pnls, i + 1)

\* (mutation of LoadAccount: a failing query discards what was loaded so far)
LoadAccount_FailureDiscards(ledger, venue, account) ==
    LET account_key == _get_account_key(account) IN
    IF account \in venue.fails THEN [stock |-> EmptyDict, futures |-> EmptyDict]
    ELSE IF account.account_type = "Stock"
         THEN [ledger EXCEPT !.stock =
                  LoadStockPnls(@, account_key, venue.positions[account], 1)]
         ELSE IF account.account_type = "Future"
              THEN [ledger EXCEPT !.futures =
                       LoadFuturePnls(@, account_key, venue.positions[account], 1)]
              ELSE ledger

\* one iteration of `for account in accounts` (lines 64-107); venue is the
\* venue client: venue.fails are the accounts whose list_positions raises
LoadAccount(ledger, venue, account) ==
    LET account_key == _get_account_key(account) IN
    IF account \in venue.fails THEN ledger
    ELSE IF account.account_type = "Stock"
         THEN [ledger EXCEPT !.stock =
                  LoadStockPnls(@, account_key, venue.positions[account], 1)]
         ELSE IF account.account_type = "Future"
              THEN [ledger EXCEPT !.futures =
                       LoadFuturePnls(@, account_key, venue.positions[account], 1)]
              ELSE ledger

RECURSIVE LoadAccounts(_, _, _)
LoadAccounts(ledger, venue, i) ==
    IF i > Len(venue.accounts) THEN ledger
    ELSE LoadAccounts(LoadAccount(ledger, venue, venue.accounts[i]), venue, i + 1)

\* __init__ (lines 38-44): both dicts empty, then _initialize_positions
_initialize_positions(venue) ==
    LoadAccounts([stock |-> EmptyDict, futures |-> EmptyDict], venue, 1)

(* ------------------------------ deal events ----------------------------- *)
_normalize_direction(direction) ==
    IF direction = "Buy" \/ direction = "buy" THEN "Buy"
    ELSE IF direction = "Sell" \/ direction = "sell" THEN "Sell"
    ELSE "KeyError"

_normalize_cond(cond) ==
    IF cond \in StockOrderCond THEN cond ELSE "Cash"

\* (mutation of DefaultOrderCond: a deal without order condition is booked as
\* margin trading)
DefaultOrderCond_Margin == "MarginTrading"

\* deal.get("order_cond", StockOrderCond.Cash) (line 200): the default
DefaultOrderCond == "Cash"

\* (mutation of StockKey: the order condition is left out of the key)
StockKey_IgnoresCond(code, order_cond) == <<code, "Cash">>

\* key = (code, order_cond) (line 231)
StockKey(code, order_cond) == <<code, order_cond>>

\* (mutation of NewStockPosition: the deal quantity is also booked as yesterday's)
NewStockPosition_CarriesYd(code, action, quantity, order_cond) ==
    StockPosition(code, action, quantity, quantity, order_cond)

\* the position created for a key that has none (lines 236-242)
NewStockPosition(code, action, quantity, order_cond) ==
    StockPosition(code, action, quantity, 0, order_cond)

\* (mutation of StockQuantityAfter: the direction test is dropped)
StockQuantityAfter_AlwaysAdd(position, action, quantity) ==
    position.quantity + quantity

\* position.quantity after the deal (lines 249-252)
StockQuantityAfter(position, action, quantity) ==
    IF position.direction = action
    THEN position.quantity + quantity
    ELSE position.quantity - quantity

\* (mutation of UpdatedStockPosition: a deal of the opposite direction is taken
\* from yesterday's quantity first)
UpdatedStockPosition_ConsumesYd(position, action, quantity) ==
    [position EXCEPT
        !.quantity = StockQuantityAfter(position, action, quantity),
        !.yd_quantity = IF position.direction = action \/ @ < quantity
                        THEN @ ELSE @ - quantity]

\* the stored object after the in-place update (lines 249-252): quantity is
\* the only attribute assigned
UpdatedStockPosition(position, action, quantity) ==
    [position EXCEPT !.quantity = StockQuantityAfter(position, action, quantity)]

\* (mutation of StockRemoveIfZero: the entry is never deleted)
StockRemoveIfZero_Never(book, key, position) == book

\* `if position.quantity == 0: del ...[key]` (lines 263-264)
StockRemoveIfZero(book, key, position) ==
    IF position.quantity = 0 THEN DictDel(book, key) ELSE book

\* (mutation of _update_stock_position: a deal whose key has no position takes
\* over the position the code has under another order condition)
_update_stock_position_Rekeys(sp, account, code, action, quantity, price, order_cond) ==
    LET account_key == _get_account_key(account)
        sp1 == IF account_key \notin DOMAIN sp
               THEN DictSet(sp, account_key, EmptyDict) ELSE sp
        key == StockKey(code, order_cond)
        book == sp1[account_key]
        others == {k \in DOMAIN book : k[1] = code /\ k[2] # order_cond}
    IN  IF key \notin DOMAIN book /\ others # {}
        THEN LET old == CHOOSE k \in others : TRUE
                 p == [book[old] EXCEPT
                          !.cond = order_cond,
                          !.quantity = StockQuantityAfter(book[old], action, quantity)]
             IN  DictSet(sp1, account_key,
                     StockRemoveIfZero(DictSet(DictDel(book, old), key, p), key, p))
        ELSE IF key \notin DOMAIN book
        THEN DictSet(sp1, account_key,
                 DictSet(book, key,
                         NewStockPosition(code, action, quantity, order_cond)))
        ELSE LET p1 == [book[key] EXCEPT
                           !.quantity = StockQuantityAfter(book[key], action, quantity)]
             IN  DictSet(sp1, account_key,
                     StockRemoveIfZero(DictSet(book, key, p1), key, p1))

\* _update_stock_position (lines 206-271)
_update_stock_position(sp, account, code, action, quantity, price, order_cond) ==
    LET account_key == _get_account_key(account)
        sp1 == IF account_key \notin DOMAIN sp
               THEN DictSet(sp, account_key, EmptyDict) ELSE sp
        key == StockKey(code, order_cond)
        book == sp1[account_key]
    IN  IF key \notin DOMAIN book
        THEN DictSet(sp1, account_key,
                 DictSet(book, key,
                         NewStockPosition(code, action, quantity, order_cond)))
        ELSE LET position == book[key]
                 \* position.quantity is updated in place (lines 249-252)
                 p1 == UpdatedStockPosition(position, action, quantity)
                 book1 == DictSet(book, key, p1)
                 \* stored cond differs: delete, re-tag, re-insert (lines 255-260)
                 new_key == StockKey(code, order_cond)
                 p2 == IF p1.cond # order_cond
                       THEN [p1 EXCEPT !.cond = order_cond] ELSE p1
                 book2 == IF p1.cond # order_cond
                          THEN DictSet(DictDel(book1, key), new_key, p2)
                          ELSE book1
             IN  DictSet(sp1, account_key, StockRemoveIfZero(book2, key, p2))

\* (mutation of FuturesQuantityAfter: the direction test is dropped)
FuturesQuantityAfter_AlwaysAdd(position, action, quantity) ==
    position.quantity + quantity

\* position.quantity after the deal (lines 309-312)
FuturesQuantityAfter(position, action, quantity) ==
    IF position.direction = action
    THEN position.quantity + quantity
    ELSE position.quantity - quantity

\* (mutation of FuturesRemoveIfZero: the entry is never deleted)
FuturesRemoveIfZero_Never(book, code, position) == book

\* `if position.quantity == 0: del ...[code]` (lines 315-316)
FuturesRemoveIfZero(book, code, position) ==
    IF position.quantity = 0 THEN DictDel(book, code) ELSE book

_update_futures_position(fp, account, code, action, quantity, price) ==
    LET account_key == _get_account_key(account)
        fp1 == IF account_key \notin DOMAIN fp
               THEN DictSet(fp, account_key, EmptyDict) ELSE fp
        book == fp1[account_key]
    IN  IF code \notin DOMAIN book
        THEN DictSet(fp1, account_key,
                 DictSet(book, code, FuturesPosition(code, action, quantity)))
        ELSE LET position == book[code]
                 p1 == [position EXCEPT
                           !.quantity = FuturesQuantityAfter(position, action, quantity)]
                 book1 == DictSet(book, code, p1)
             IN  DictSet(fp1, account_key, FuturesRemoveIfZero(book1, code, p1))

\* (mutation of _update_position: a deal without price is dropped like one
\* without code)
_update_position_NeedsPrice(ledger, deal, is_futures) ==
    LET code == Get(deal, "code", "")
        action_value == Get(deal, "action", "")
        quantity == Get(deal, "quantity", 0)
        price == Get(deal, "price", 0)
        account == Get(deal, "account", NoAccountDict)
        action == _normalize_direction(action_value)
        unchanged(how) ==
            [stock |-> ledger.stock, futures |-> ledger.futures, outcome |-> how]
    IN  IF code = "" \/ action_value = "" \/ account.present = {} \/ price = 0
        THEN unchanged("dropped")
        ELSE IF action = "KeyError" THEN unchanged("raised")
        ELSE IF account.present # {"broker_id", "account_id"} THEN unchanged("raised")
        ELSE IF is_futures
             THEN [stock |-> ledger.stock,
                   futures |-> _update_futures_position(ledger.futures, account,
                                   code, action, quantity, price),
                   outcome |-> "applied"]
             ELSE LET order_cond ==
                          _normalize_cond(Get(deal, "order_cond", DefaultOrderCond))
                  IN [stock |-> _update_stock_position(ledger.stock, account,
                                   code, action, quantity, price, order_cond),
                      futures |-> ledger.futures,
                      outcome |-> "applied"]

\* _update_position (lines 184-204); the result carries the two dicts and how
\* the call ended: "applied", "dropped" (the early return) or "raised"
_update_position(ledger, deal, is_futures) ==
    LET code == Get(deal, "code", "")
        action_value == Get(deal, "action", "")
        quantity == Get(deal, "quantity", 0)
        price == Get(deal, "price", 0)
        account == Get(deal, "account", NoAccountDict)
        action == _normalize_direction(action_value)
        unchanged(how) ==
            [stock |-> ledger.stock, futures |-> ledger.futures, outcome |-> how]
    IN  IF code = "" \/ action_value = "" \/ account.present = {}
        THEN unchanged("dropped")
        ELSE IF action = "KeyError" THEN unchanged("raised")
        ELSE IF account.present # {"broker_id", "account_id"} THEN unchanged("raised")
        ELSE IF is_futures
             THEN [stock |-> ledger.stock,
                   futures |-> _update_futures_position(ledger.futures, account,
                                   code, action, quantity, price),
                   outcome |-> "applied"]
             ELSE LET order_cond ==
                          _normalize_cond(Get(deal, "order_cond", DefaultOrderCond))
                  IN [stock |-> _update_stock_position(ledger.stock, account,
                                   code, action, quantity, price, order_cond),
                      futures |-> ledger.futures,
                      outcome |-> "applied"]

\* (mutation of on_order_deal_event: every deal is booked as an equity deal)
on_order_deal_event_AllEquity(ledger, state, data) ==
    IF state = "StockDeal" THEN _update_position(ledger, data, FALSE)
    ELSE IF state = "FuturesDeal" THEN _update_position(ledger, data, FALSE)
    ELSE [stock |-> ledger.stock, futures |-> ledger.futures, outcome |-> "ignored"]

\* on_order_deal_event (lines 163-175)
on_order_deal_event(ledger, state, data) ==
    IF state = "StockDeal" THEN _update_position(ledger, data, FALSE)
    ELSE IF state = "FuturesDeal" THEN _update_position(ledger, data, TRUE)
    ELSE [stock |-> ledger.stock, futures |-> ledger.futures, outcome |-> "ignored"]

\* The calls on_order_deal_event makes to a callback of the caller, in order
\* (lines 163-175): none.  The handler calls _update_position and returns, and
\* the constructor (lines 23-44) keeps no callback but registers the handler
\* itself with the venue client.
UserCallbackCalls(state, data, cb) == <<>>

(* ---------------------------- list_positions ---------------------------- *)
\* list(d.values()), as the set of its elements
Values(d) == {d[k] : k \in DOMAIN d}

\* (mutation of ListDefault: without a usable default account, every equity
\* position of the ledger is returned)
ListDefault_AnyAccount(ledger, venue) ==
    IF /\ venue.stock_account # NoAccount
       /\ _get_account_key(venue.stock_account) \in DOMAIN ledger.stock
    THEN Values(ledger.stock[_get_account_key(venue.stock_account)])
    ELSE IF /\ venue.futopt_account # NoAccount
            /\ _get_account_key(venue.futopt_account) \in DOMAIN ledger.futures
         THEN Values(ledger.futures[_get_account_key(venue.futopt_account)])
         ELSE UNION {Values(ledger.stock[k]) : k \in DOMAIN ledger.stock}

\* list_positions with account=None (lines 124-145)
ListDefault(ledger, venue) ==
    IF /\ venue.stock_account # NoAccount
       /\ _get_account_key(venue.stock_account) \in DOMAIN ledger.stock
    THEN Values(ledger.stock[_get_account_key(venue.stock_account)])
    ELSE IF /\ venue.futopt_account # NoAccount
            /\ _get_account_key(venue.futopt_account) \in DOMAIN ledger.futures
         THEN Values(ledger.futures[_get_account_key(venue.futopt_account)])
         ELSE {}

\* (mutation of ListAccount: the account type is not consulted)
ListAccount_AnyClass(ledger, account) ==
    LET account_key == _get_account_key(account) IN
    (IF account_key \in DOMAIN ledger.stock
     THEN Values(ledger.stock[account_key]) ELSE {})
    \cup (IF account_key \in DOMAIN ledger.futures
          THEN Values(ledger.futures[account_key]) ELSE {})

\* list_positions with an explicit account (lines 146-161)
ListAccount(ledger, account) ==
    LET account_key == _get_account_key(account) IN
    IF account.account_type = "Stock"
    THEN IF account_key \in DOMAIN ledger.stock
         THEN Values(ledger.stock[account_key]) ELSE {}
    ELSE IF account.account_type = "Future"
         THEN IF account_key \in DOMAIN ledger.futures
              THEN Values(ledger.futures[account_key]) ELSE {}
         ELSE {}

\* list_positions (lines 109-161); account = NoAccount is account=None
list_positions(ledger, venue, account) ==
    IF account = NoAccount THEN ListDefault(ledger, venue)
    ELSE ListAccount(ledger, account)

\* (mutation of ListQueries: every read asks the venue for the account)
ListQueries_Always(ledger, venue, account) == <<account>>

\* the api.list_positions calls list_positions makes, in order: lines 124-161
\* hold no call on self.api (its attributes stock_account and futopt_account
\* are only read)
ListQueries(ledger, venue, account) == <<>>

\* (mutation of LedgerAfterList: a read of an equities account creates its dict)
LedgerAfterList_CreatesBook(ledger, venue, account) ==
    IF /\ account.account_type = "Stock"
       /\ _get_account_key(account) \notin DOMAIN ledger.stock
    THEN [ledger EXCEPT !.stock = DictSet(@, _get_account_key(account), EmptyDict)]
    ELSE ledger

\* the two dicts after list_positions: lines 124-161 assign to neither and
\* call no method that changes them
LedgerAfterList(ledger, venue, account) == ledger

\* the dict whose values list_positions returns, as <<account key, class>>;
\* <<"", "">> where it returns the literal []
ResolvedBook(ledger, venue, account) ==
    IF account = NoAccount
    THEN IF /\ venue.stock_account # NoAccount
            /\ _get_account_key(venue.stock_account) \in DOMAIN ledger.stock
         THEN <<_get_account_key(venue.stock_account), "stock">>
         ELSE IF /\ venue.futopt_account # NoAccount
                 /\ _get_account_key(venue.futopt_account) \in DOMAIN ledger.futures
              THEN <<_get_account_key(venue.futopt_account), "futures">>
              ELSE <<"", "">>
    ELSE IF /\ account.account_type = "Stock"
            /\ _get_account_key(account) \in DOMAIN ledger.stock
         THEN <<_get_account_key(account), "stock">>
         ELSE IF /\ account.account_type = "Future"
                 /\ _get_account_key(account) \in DOMAIN ledger.futures
              THEN <<_get_account_key(account), "futures">>
              ELSE <<"", "">>

(* ------------------------- inputs of the model -------------------------- *)
StockCodes == {"2330"}
\* a futures deal carries the product code and the full contract code
FutureCode == "TXF"
FutureFullCode == "TXFJ4"
\* order conditions carried by the deal events explored
DealConds == {"Cash", "MarginTrading"}
Price == 500
\* another price (the one of conftest's sample deal)
AltPrice == 505

BlankDeal ==
    [present |-> {}, code |-> "", full_code |-> "", action |-> "", quantity |-> 0,
     price |-> 0, account |-> NoAccountDict, order_cond |-> "",
     broker_id |-> "", account_id |-> ""]

\* deal data with a nested account dict (tests/step_defs create_deal)
StockDeal(a, code, action, quantity, price, order_cond) ==
    [BlankDeal EXCEPT
        !.present = {"code", "action", "quantity", "price", "order_cond", "account"},
        !.code = code, !.action = action, !.quantity = quantity, !.price = price,
        !.order_cond = order_cond, !.account = AccountDict(a)]

FuturesDeal(a, code, full_code, action, quantity, price) ==
    [BlankDeal EXCEPT
        !.present = {"code", "full_code", "action", "quantity", "price", "account"},
        !.code = code, !.full_code = full_code, !.action = action,
        !.quantity = quantity, !.price = price, !.account = AccountDict(a)]

\* deal data in the venue's format: broker_id and account_id at top level
\* (tests/conftest.py sample_stock_deal)
OfficialStockDeal(a, code, action, quantity, price, order_cond) ==
    [BlankDeal EXCEPT
        !.present = {"code", "action", "quantity", "price", "order_cond",
                     "broker_id", "account_id"},
        !.code = code, !.action = action, !.quantity = quantity, !.price = price,
        !.order_cond = order_cond,
        !.broker_id = a.broker_id, !.account_id = a.account_id]

\* the same data with one field deleted
Without(deal, field) ==
    [deal EXCEPT !.present = @ \ {field}, ![field] = BlankDeal[field]]

\* every order condition on the first account, Cash on the second
WellFormedStockDeals ==
    {StockDeal(StockAcc1, c, act, q, Price, oc) :
        c \in StockCodes, act \in ActionEnum, q \in 1..MaxQty, oc \in DealConds}
    \cup {StockDeal(StockAcc2, c, act, q, Price, "Cash") :
        c \in StockCodes, act \in ActionEnum, q \in 1..MaxQty}

WellFormedFuturesDeals ==
    {FuturesDeal(FutAcc1, FutureCode, FutureFullCode, act, q, Price) :
        act \in ActionEnum, q \in 1..MaxQty}

BaseStockDeal == StockDeal(StockAcc1, "2330", "Buy", 1, Price, "Cash")
BaseFuturesDeal == FuturesDeal(FutAcc1, FutureCode, FutureFullCode, "Buy", 1, Price)

MalformedStockDeals ==
    {Without(BaseStockDeal, f) :
        f \in {"code", "action", "quantity", "price", "order_cond", "account"}}

OddStockDeals ==
    {[BaseStockDeal EXCEPT !.action = "sell"],
     [BaseStockDeal EXCEPT !.action = "Hold"],
     [BaseStockDeal EXCEPT !.order_cond = "Odd"],
     [BaseStockDeal EXCEPT !.account.present = {"broker_id"}, !.account.account_id = ""],
     OfficialStockDeal(StockAcc1, "2330", "Buy", 1, Price, "Cash"),
     Without(StockDeal(StockAcc1, "2330", "Sell", 1, Price, "Cash"), "order_cond")}

\* an equity fill tagged with the derivatives account, and a derivative fill
\* tagged with an equities account
CrossStockDeal == StockDeal(FutAcc1, "2330", "Buy", 1, Price, "Cash")
CrossFuturesDeal == FuturesDeal(StockAcc1, FutureCode, FutureFullCode, "Buy", 1, Price)
\* a derivative fill whose account key and code are those of an equity position
SameCodeFuturesDeal == FuturesDeal(StockAcc1, "2330", "2330", "Sell", 1, Price)

StockDealData ==
    WellFormedStockDeals \cup MalformedStockDeals \cup OddStockDeals \cup {CrossStockDeal}
FuturesDealData ==
    WellFormedFuturesDeals
    \cup {Without(BaseFuturesDeal, "quantity"), CrossFuturesDeal, SameCodeFuturesDeal}

\* (state, data) pairs the venue client delivers to the callback
Deliveries ==
    ({"StockDeal"} \X StockDealData) \cup ({"FuturesDeal"} \X FuturesDealData)
    \cup ({"StockOrder", "FuturesOrder"} \X {BaseStockDeal})

\* what api.list_positions returns per account at construction
SnapshotEmpty == [a \in Accounts |-> <<>>]
SnapshotHeld ==
    (StockAcc1 :> <<Pnl("StockPosition", "2330", "Buy", MaxQty, 1, "Cash")>>)
    @@ (StockAcc2 :> <<Pnl("StockPosition", "2330", "Sell", 1, 1, "MarginTrading"),
                       Pnl("FuturePosition", FutureFullCode, "Buy", 1, 0, "")>>)
    @@ (FutAcc1 :> <<Pnl("FuturePosition", FutureFullCode, "Buy", 1, 0, "")>>)
SnapshotZero ==
    (StockAcc1 :> <<Pnl("StockPosition", "2330", "Buy", 0, 0, "Cash")>>)
    @@ (StockAcc2 :> <<>>)
    @@ (FutAcc1 :> <<Pnl("FuturePosition", FutureFullCode, "Sell", 0, 0, "")>>)

AllAccounts == <<StockAcc1, StockAcc2, FutAcc1>>

\* the venue client as seen at construction: no account enumerated under
\* every choice of default accounts, and four enumerations with both defaults
\* (in two of them the query of one account raises)
Venues ==
    {[stock_account |-> sa, futopt_account |-> fa, accounts |-> <<>>,
      positions |-> SnapshotEmpty, fails |-> {}, list_accounts_raises |-> FALSE] :
        sa \in {StockAcc1, NoAccount}, fa \in {FutAcc1, NoAccount}}
    \cup
    {[stock_account |-> StockAcc1, futopt_account |-> FutAcc1,
      accounts |-> AllAccounts, positions |-> w[1], fails |-> w[2],
      list_accounts_raises |-> FALSE] :
        w \in {<<SnapshotHeld, {}>>, <<SnapshotHeld, {StockAcc1}>>,
               <<SnapshotHeld, {StockAcc2}>>, <<SnapshotZero, {}>>}}

(* ------------------------------- state ---------------------------------- *)
VARIABLES
    api,                \* the venue client (self.api)
    _stock_positions,   \* self._stock_positions
    _futures_positions, \* self._futures_positions
    ndeals,             \* callback deliveries so far
    last,               \* the last call on the instance, its arguments and result
    net,                \* per ledger cell: deals summed since the cell was absent
    clock,              \* the clock, in seconds since construction
    dealt,              \* per account key: the clock at its latest applied deal, or Never
    held,               \* the elements of a list a caller got from list_positions and kept
    reread,             \* the caller that keeps its lists made the same read twice in a row
    user_callback,      \* the callback a caller asked the instance to register, or "None"
    inflight,           \* the delivery that is between its quantity update and its deletion test
    applied,            \* per ledger cell: signed sum of the deals applied since construction
    loading             \* where _initialize_positions stands, "done" once __init__ has returned

vars ==
    <<api, _stock_positions, _futures_positions, ndeals, last, net, clock, dealt, held,
      reread, user_callback, inflight, applied, loading>>

Ledger == [stock |-> _stock_positions, futures |-> _futures_positions]

AccountKeys == {_get_account_key(a) : a \in Accounts}

\* a ledger cell: <<account key, "stock", code, cond>> or <<account key, "futures", code, "">>
Cells ==
    (AccountKeys \X {"stock"} \X StockCodes \X StockOrderCond)
    \cup (AccountKeys \X {"futures"}
             \X ({FutureCode, FutureFullCode} \cup StockCodes) \X {""})

\* the entry stored in a cell, NoPosition when the cell is absent
Entry(ledger, c) ==
    IF c[2] = "stock"
    THEN IF c[1] \in DOMAIN ledger.stock /\ <<c[3], c[4]>> \in DOMAIN ledger.stock[c[1]]
         THEN ledger.stock[c[1]][<<c[3], c[4]>>] ELSE NoPosition
    ELSE IF c[1] \in DOMAIN ledger.futures /\ c[3] \in DOMAIN ledger.futures[c[1]]
         THEN [NoPosition EXCEPT !.code = ledger.futures[c[1]][c[3]].code,
                                 !.direction = ledger.futures[c[1]][c[3]].direction,
                                 !.quantity = ledger.futures[c[1]][c[3]].quantity]
         ELSE NoPosition

Present(ledger, c) ==
    IF c[2] = "stock"
    THEN c[1] \in DOMAIN ledger.stock /\ <<c[3], c[4]>> \in DOMAIN ledger.stock[c[1]]
    ELSE c[1] \in DOMAIN ledger.futures /\ c[3] \in DOMAIN ledger.futures[c[1]]

\* the cell an applied deal works on
CellOf(state, data) ==
    IF state = "StockDeal"
    THEN <<_get_account_key(data.account), "stock", data.code,
           _normalize_cond(Get(data, "order_cond", DefaultOrderCond))>>
    ELSE <<_get_account_key(data.account), "futures", data.code, "">>

Signed(action, quantity) == IF action = "Buy" THEN quantity ELSE 0 - quantity

\* tracked: the cell was absent and only deals of positive quantity were applied
\* to it since; n and sum: how many, and their signed sum
Untracked == [tracked |-> FALSE, n |-> 0, sum |-> 0]
Fresh == [tracked |-> TRUE, n |-> 0, sum |-> 0]

\* net after a delivery that ended in ledger new
NetAfter(state, data, outcome, new) ==
    [c \in Cells |->
        LET n == IF outcome = "applied" /\ c = CellOf(state, data) /\ net[c].tracked
                 THEN IF Get(data, "quantity", 0) > 0
                      THEN [net[c] EXCEPT
                               !.n = @ + 1,
                               !.sum = @ + Signed(_normalize_direction(data.action),
                                                  data.quantity)]
                      ELSE Untracked
                 ELSE net[c]
        IN  IF ~n.tracked /\ ~Present(new, c) THEN Fresh ELSE n]

\* applied after a delivery: an applied deal counts for its cell, Buy as
\* +quantity and Sell as -quantity
AppliedAfter(state, data, outcome) ==
    IF outcome # "applied" THEN applied
    ELSE [applied EXCEPT ![CellOf(state, data)] =
             @ + Signed(_normalize_direction(data.action), Get(data, "quantity", 0))]

\* no deal was applied for the account key yet
Never == 0 - 1

\* dealt after a delivery
DealtAfter(state, data, outcome) ==
    IF outcome = "applied"
    THEN [dealt EXCEPT ![_get_account_key(data.account)] = clock]
    ELSE dealt

\* The elements of a returned list are the objects the dicts hold (lines 132,
\* 141, 153, 157: list(d.values())), and a deal changes an object in place
\* (lines 249-252, 309-312).  A kept element is [cell, pos, live]: the cell it
\* was read from, its fields as the caller sees them now, and whether it still
\* is the object stored in that cell.
HeldOf(ledger, venue, account) ==
    LET b == ResolvedBook(ledger, venue, account) IN
    {[cell |-> c, pos |-> IF c[2] = "stock" THEN ledger.stock[c[1]][<<c[3], c[4]>>]
                          ELSE ledger.futures[c[1]][c[3]],
      live |-> TRUE] :
        c \in {x \in Cells : x[1] = b[1] /\ x[2] = b[2] /\ Present(ledger, x)}}

\* held after a delivery: the object of the cell the deal works on gets the
\* new quantity, and leaves the dict when that is 0 (lines 263-264, 315-316)
HeldAfter(state, data, outcome) ==
    IF outcome # "applied" THEN held
    ELSE LET c == CellOf(state, data)
             action == _normalize_direction(data.action)
             quantity == Get(data, "quantity", 0)
         IN  {IF h.live /\ h.cell = c
              THEN LET q == IF c[2] = "stock"
                            THEN StockQuantityAfter(h.pos, action, quantity)
                            ELSE FuturesQuantityAfter(h.pos, action, quantity)
                   IN  [h EXCEPT !.pos.quantity = q, !.live = (q # 0)]
              ELSE h : h \in held}

NoCall ==
    [op |-> "__init__", state |-> "", data |-> BlankDeal, outcome |-> "",
     before |-> NoPosition, account |-> NoAccount, result |-> {}, queries |-> <<>>,
     notified |-> <<>>]

\* _initialize_positions has returned
Loaded == [pc |-> "done", i |-> 0]

\* no delivery is under way
NoFlight ==
    [active |-> FALSE, state |-> "", data |-> BlankDeal, outcome |-> "",
     before |-> NoPosition, existed |-> FALSE]

\* the api.list_positions calls of _initialize_positions: one per account of
\* list_accounts(), in its order (lines 62-71)
InitQueries(venue) == venue.accounts

Init ==
    /\ api \in Venues
    /\ LET ledger == _initialize_positions(api) IN
         /\ _stock_positions = ledger.stock
         /\ _futures_positions = ledger.futures
         /\ net = [c \in Cells |-> IF Present(ledger, c) THEN Untracked ELSE Fresh]
    /\ ndeals = 0
    /\ last = [NoCall EXCEPT !.queries = InitQueries(api)]
    /\ clock = 0
    /\ dealt = [k \in AccountKeys |-> Never]
    /\ held = {}
    /\ reread = FALSE
    /\ user_callback = "None"
    /\ inflight = NoFlight
    /\ applied = [c \in Cells |-> 0]
    /\ loading = Loaded

\* what one call of on_order_deal_event(state, data) leaves behind, r being
\* what the handler made of the ledger
Delivered(state, data, r) ==
    /\   /\ _stock_positions' = r.stock
         /\ _futures_positions' = r.futures
         /\ net' = NetAfter(state, data, r.outcome, r)
         /\ last' = [NoCall EXCEPT !.op = "on_order_deal_event", !.state = state,
                        !.data = data, !.outcome = r.outcome,
                        !.before = IF r.outcome = "applied"
                                   THEN Entry(Ledger, CellOf(state, data))
                                   ELSE NoPosition,
                        !.notified = UserCallbackCalls(state, data, user_callback)]
         /\ dealt' = DealtAfter(state, data, r.outcome)
         /\ applied' = AppliedAfter(state, data, r.outcome)
         /\ held' = HeldAfter(state, data, r.outcome)
         /\ reread' = FALSE
    /\ ndeals' = ndeals + 1
    /\ UNCHANGED <<api, clock, user_callback, inflight, loading>>

\* (mutation of Callback: an order event is handled as the deal event of its
\* class)
Callback_OrdersApplied(state, data) ==
    Delivered(state, data,
              on_order_deal_event(Ledger,
                  IF state = "StockOrder" THEN "StockDeal"
                  ELSE IF state = "FuturesOrder" THEN "FuturesDeal" ELSE state,
                  data))

\* one call of on_order_deal_event(state, data) by the venue client
Callback(state, data) ==
    Delivered(state, data, on_order_deal_event(Ledger, state, data))

\* the venue client delivers any (state, data)
Deliver(state, data) ==
    /\ ndeals < MaxDeals
    /\ Callback(state, data)

\* one call of list_positions(account); NoAccount is list_positions()
Read(account) ==
    /\ last' = [NoCall EXCEPT !.op = "list_positions", !.account = account,
                   !.result = list_positions(Ledger, api, account),
                   !.queries = ListQueries(Ledger, api, account)]
    /\ LET after == LedgerAfterList(Ledger, api, account) IN
         /\ _stock_positions' = after.stock
         /\ _futures_positions' = after.futures
    /\ UNCHANGED <<api, ndeals, net, clock, dealt, user_callback, inflight, applied,
                   loading>>

\* a caller reads the positions and drops the list before the next call
ListPositions(account) ==
    /\ Read(account)
    /\ UNCHANGED <<held, reread>>

Next ==
    \/ \E d \in Deliveries : Deliver(d[1], d[2])
    \/ \E account \in Accounts \cup {NoAccount} : ListPositions(account)

Spec == Init /\ [][Next]_vars

(* Longer runs of well-formed deals on one equity key and one derivative key *)
SeqDeliveries ==
    ({"StockDeal"} \X {StockDeal(StockAcc1, "2330", act, q, Price, "Cash") :
                          act \in ActionEnum, q \in 1..MaxQty})
    \cup ({"FuturesDeal"} \X WellFormedFuturesDeals)

DeliverSeq(state, data) ==
    /\ ndeals < MaxSeq
    /\ Callback(state, data)

NextSeq == \E d \in SeqDeliveries : DeliverSeq(d[1], d[2])

SpecSeq == Init /\ [][NextSeq]_vars

(* Reads at different times: the clock advances between the calls, and the    *)
(* caller keeps the list it got while further deals arrive                    *)
Tick ==
    /\ clock < MaxTime
    /\ clock' = clock + 1
    /\ UNCHANGED <<api, _stock_positions, _futures_positions, ndeals, last, net,
                   dealt, held, reread, user_callback, inflight, applied, loading>>

DeliverRead(state, data) ==
    /\ ndeals < MaxDeals
    /\ Callback(state, data)

\* a caller reads the positions and keeps the list
ListAndHold(account) ==
    /\ Read(account)
    /\ held' = HeldOf(Ledger, api, account)
    /\ reread' = (last.op = "list_positions" /\ last.account = account)

NextRead ==
    \/ \E d \in SeqDeliveries : DeliverRead(d[1], d[2])
    \/ \E account \in Accounts \cup {NoAccount} : ListAndHold(account)
    \/ Tick

\* constructions explored with reads at different times: nothing enumerated,
\* and every account enumerated and loaded, both with both default accounts
ReadVenues ==
    {v \in Venues : /\ v.stock_account = StockAcc1 /\ v.futopt_account = FutAcc1
                    /\ v.fails = {}
                    /\ v.positions \in {SnapshotEmpty, SnapshotHeld}}

InitRead == Init /\ api \in ReadVenues

SpecRead == InitRead /\ [][NextRead]_vars

(* A caller that wants its own callback invoked on every deal event           *)
UserCallbacks == {"returns", "raises"}

\* sync.set_order_callback(cb): the class (lines 13-356) defines no such method
\* and __init__ (lines 23-44) sets no such attribute, so the call raises
\* AttributeError and the instance is as before; user_callback keeps what the
\* caller asked for
SetOrderCallback(cb) ==
    /\ user_callback' = cb
    /\ last' = [NoCall EXCEPT !.op = "set_order_callback", !.outcome = "AttributeError"]
    /\ UNCHANGED <<api, _stock_positions, _futures_positions, ndeals, net, clock,
                   dealt, held, reread, inflight, applied, loading>>

DeliverUser(state, data) ==
    /\ ndeals < MaxDeals
    /\ Callback(state, data)

NextUser ==
    \/ \E cb \in UserCallbacks : SetOrderCallback(cb)
    \/ \E d \in SeqDeliveries : DeliverUser(d[1], d[2])

SpecUser == InitRead /\ [][NextUser]_vars

(* Construction with a venue client whose list_accounts() may raise           *)
\* venue clients whose account enumeration raises (a timeout, a transport failure)
FailingVenues ==
    {[stock_account |-> StockAcc1, futopt_account |-> FutAcc1,
      accounts |-> AllAccounts, positions |-> p, fails |-> {},
      list_accounts_raises |-> TRUE] : p \in {SnapshotEmpty, SnapshotHeld}}

StartupVenues == ReadVenues \cup FailingVenues

\* __init__ (lines 31-44): the handler is registered (line 32), both dicts are
\* set empty (lines 38-41), then _initialize_positions runs (line 44).  Its
\* first statement, self.api.list_accounts() (line 62), is outside the try of
\* lines 67-76 and __init__ has no try: what it raises leaves the constructor.
Construct(venue) ==
    IF venue.list_accounts_raises
    THEN [stock |-> EmptyDict, futures |-> EmptyDict, outcome |-> "raised"]
    ELSE LET ledger == _initialize_positions(venue) IN
         [stock |-> ledger.stock, futures |-> ledger.futures, outcome |-> ""]

\* the caller got an instance from the constructor
Constructed == ~api.list_accounts_raises

InitStartup ==
    /\ api \in StartupVenues
    /\ LET r == Construct(api) IN
         /\ _stock_positions = r.stock
         /\ _futures_positions = r.futures
         /\ net = [c \in Cells |-> IF Present(r, c) THEN Untracked ELSE Fresh]
         /\ last = [NoCall EXCEPT
                       !.outcome = r.outcome,
                       !.queries = IF r.outcome = "raised" THEN <<>>
                                   ELSE InitQueries(api)]
    /\ ndeals = 0
    /\ clock = 0
    /\ dealt = [k \in AccountKeys |-> Never]
    /\ held = {}
    /\ reread = FALSE
    /\ user_callback = "None"
    /\ inflight = NoFlight
    /\ applied = [c \in Cells |-> 0]
    /\ loading = Loaded

\* the venue client holds the handler from line 32 on, whether or not the
\* constructor returned
DeliverStartup(state, data) ==
    /\ ndeals < MaxDeals
    /\ Callback(state, data)

\* a read needs the instance the constructor returns
ListStartup(account) ==
    /\ Constructed
    /\ ListPositions(account)

NextStartup ==
    \/ \E d \in SeqDeliveries : DeliverStartup(d[1], d[2])
    \/ \E account \in Accounts \cup {NoAccount} : ListStartup(account)

SpecStartup == InitStartup /\ [][NextStartup]_vars

(* Construction in steps.  __init__ registers the handler (line 32) before    *)
(* _initialize_positions runs (line 44), so the venue client's thread can     *)
(* deliver deal events between the statements of the load.                    *)
\* the state of the load after account i
NextAccount(i) ==
    IF i < Len(api.accounts) THEN [pc |-> "query", i |-> i + 1] ELSE Loaded

\* __init__ up to the loop of _initialize_positions (lines 31-62): handler
\* registered, both dicts empty, accounts enumerated
InitLoad ==
    /\ api \in ReadVenues
    /\ _stock_positions = EmptyDict
    /\ _futures_positions = EmptyDict
    /\ net = [c \in Cells |-> Fresh]
    /\ ndeals = 0
    /\ last = NoCall
    /\ clock = 0
    /\ dealt = [k \in AccountKeys |-> Never]
    /\ held = {}
    /\ reread = FALSE
    /\ user_callback = "None"
    /\ inflight = NoFlight
    /\ applied = [c \in Cells |-> 0]
    /\ loading = NextAccount(0)

\* positions_pnl = self.api.list_positions(account=account, unit=Unit.Common)
\* (lines 67-76): the snapshot of the account is taken; `continue` when it raises
QueryAccount ==
    /\ loading.pc = "query"
    /\ loading' = IF api.accounts[loading.i] \in api.fails
                  THEN NextAccount(loading.i)
                  ELSE [loading EXCEPT !.pc = "store"]
    /\ UNCHANGED <<api, _stock_positions, _futures_positions, ndeals, last, net, clock,
                   dealt, held, reread, user_callback, inflight, applied>>

\* the snapshot's positions are put into the dict of the account (lines 78-105)
StoreAccount ==
    /\ loading.pc = "store"
    /\ LET new == LoadAccount(Ledger, api, api.accounts[loading.i]) IN
         /\ _stock_positions' = new.stock
         /\ _futures_positions' = new.futures
         /\ net' = [c \in Cells |->
                      IF Entry(new, c) # Entry(Ledger, c) THEN Untracked ELSE net[c]]
    /\ loading' = NextAccount(loading.i)
    /\ UNCHANGED <<api, ndeals, last, clock, dealt, held, reread, user_callback,
                   inflight, applied>>

\* the snapshot of the account was taken before now
SnapshotTaken(account_key) ==
    \/ loading.pc = "done"
    \/ \E j \in 1..Len(api.accounts) :
          /\ _get_account_key(api.accounts[j]) = account_key
          /\ j < loading.i \/ (j = loading.i /\ loading.pc = "store")

\* the venue client delivers the event of a deal made after the snapshot of
\* its account was taken
DeliverLoad(state, data) ==
    /\ ndeals < MaxDeals
    /\ SnapshotTaken(_get_account_key(data.account))
    /\ Callback(state, data)

\* a read needs the instance __init__ returns
ListLoad(account) ==
    /\ loading.pc = "done"
    /\ ListPositions(account)

NextLoad ==
    \/ QueryAccount
    \/ StoreAccount
    \/ \E d \in SeqDeliveries : DeliverLoad(d[1], d[2])
    \/ \E account \in Accounts \cup {NoAccount} : ListLoad(account)

SpecLoad == InitLoad /\ [][NextLoad]_vars

\* a load in steps that no delivery interrupts ends in the dicts
\* _initialize_positions gives
LoadInStepsIsWhole ==
    (loading.pc = "done" /\ ndeals = 0)
        => /\ _stock_positions = _initialize_positions(api).stock
           /\ _futures_positions = _initialize_positions(api).futures

(* Order events among the deals: the venue client delivers every event of an  *)
(* order to the one callback, with whatever data the event has                *)
OrderEvents ==
    {"StockOrder", "FuturesOrder"} \X (StockDealData \cup FuturesDealData)

DeliverEvent(state, data) ==
    /\ ndeals < MaxDeals
    /\ Callback(state, data)

NextEvents == \E d \in SeqDeliveries \cup OrderEvents : DeliverEvent(d[1], d[2])

SpecEvents == Init /\ [][NextEvents]_vars

(* Accounts whose identifiers differ in length: broker_id and account_id are  *)
(* plain strings to _get_account_key (lines 46-57)                            *)
KeyAccounts ==
    {[broker_id |-> b, account_id |-> a, account_type |-> "Stock"] :
        b \in {"91", "910"}, a \in {"00A", "0A"}}

KeyDeliveries ==
    {"StockDeal"} \X {StockDeal(a, "2330", act, q, Price, "Cash") :
                         a \in KeyAccounts, act \in ActionEnum, q \in 1..MaxQty}

\* one call of on_order_deal_event for one of these accounts; their keys are
\* none of AccountKeys, so what is recorded per cell and per key of AccountKeys
\* stays
DeliverKeys(state, data) ==
    /\ ndeals < MaxDeals
    /\ LET r == on_order_deal_event(Ledger, state, data) IN
         /\ _stock_positions' = r.stock
         /\ _futures_positions' = r.futures
         /\ last' = [NoCall EXCEPT !.op = "on_order_deal_event", !.state = state,
                        !.data = data, !.outcome = r.outcome,
                        !.before = IF r.outcome = "applied"
                                   THEN Entry(Ledger, CellOf(state, data))
                                   ELSE NoPosition,
                        !.notified = UserCallbackCalls(state, data, user_callback)]
    /\ ndeals' = ndeals + 1
    /\ UNCHANGED <<api, net, clock, dealt, held, reread, user_callback, inflight,
                   applied, loading>>

NextKeys ==
    \/ \E d \in KeyDeliveries : DeliverKeys(d[1], d[2])
    \/ \E account \in KeyAccounts : ListPositions(account)

\* no account holds a position at construction
InitKeys == Init /\ api.positions = SnapshotEmpty

SpecKeys == InitKeys /\ [][NextKeys]_vars

(* The same deals driven through both ledgers: every equity deal on one key   *)
(* is followed by a derivative deal of the same action and quantity           *)
PairStockDeal(action, quantity) ==
    StockDeal(StockAcc1, "2330", action, quantity, Price, "Cash")

PairFuturesDeal(action, quantity) ==
    FuturesDeal(FutAcc1, FutureCode, FutureFullCode, action, quantity, Price)

DeliverPairStock(action, quantity) ==
    /\ ndeals < 2 * MaxSeq
    /\ ndeals % 2 = 0
    /\ Callback("StockDeal", PairStockDeal(action, quantity))

DeliverPairFutures ==
    /\ ndeals % 2 = 1
    /\ Callback("FuturesDeal", PairFuturesDeal(last.data.action, last.data.quantity))

NextPair ==
    \/ \E action \in ActionEnum, quantity \in 1..MaxQty :
          DeliverPairStock(action, quantity)
    \/ DeliverPairFutures

\* constructions that load nothing: both ledgers start empty
InitPair == Init /\ api.positions = SnapshotEmpty

SpecPair == InitPair /\ [][NextPair]_vars

(* The venue client delivers deal events on its own thread while other        *)
(* threads read.  The class takes no lock, so a reader can run between any    *)
(* two statements of a delivery; the step that matters is the one between the *)
(* in-place quantity update (lines 249-252, 309-312) and the deletion test    *)
(* (lines 263-264, 315-316).                                                  *)
\* the dicts when on_order_deal_event(state, data) has run up to its deletion
\* test and not further: the object whose quantity reached 0 is still stored
BeforeRemove(ledger, state, data) ==
    LET r == on_order_deal_event(ledger, state, data) IN
    IF r.outcome # "applied" THEN r
    ELSE LET c == CellOf(state, data) IN
         IF ~(Present(ledger, c) /\ ~Present(r, c)) THEN r
         ELSE IF c[2] = "stock"
              THEN [r EXCEPT !.stock =
                       DictSet(@, c[1],
                           DictSet(@[c[1]], <<c[3], c[4]>>,
                               [ledger.stock[c[1]][<<c[3], c[4]>>] EXCEPT
                                   !.quantity = 0]))]
              ELSE [r EXCEPT !.futures =
                       DictSet(@, c[1],
                           DictSet(@[c[1]], c[3],
                               [ledger.futures[c[1]][c[3]] EXCEPT !.quantity = 0]))]

\* the rest of the delivery: the deletion test, made only for a position that
\* existed before the deal (the else branch, lines 247-264 and 307-316)
AfterRemove(ledger, flight) ==
    IF ~flight.existed THEN ledger
    ELSE LET c == CellOf(flight.state, flight.data) IN
         IF c[2] = "stock"
         THEN [ledger EXCEPT !.stock =
                  DictSet(@, c[1],
                      StockRemoveIfZero(@[c[1]], <<c[3], c[4]>>,
                                        @[c[1]][<<c[3], c[4]>>]))]
         ELSE [ledger EXCEPT !.futures =
                  DictSet(@, c[1],
                      FuturesRemoveIfZero(@[c[1]], c[3], @[c[1]][c[3]]))]

\* the delivery thread enters on_order_deal_event and runs up to the deletion test
BeginDeliver(state, data) ==
    /\ ~inflight.active
    /\ ndeals < MaxDeals
    /\ LET mid == BeforeRemove(Ledger, state, data)
           is_applied == mid.outcome = "applied"
       IN  /\ _stock_positions' = mid.stock
           /\ _futures_positions' = mid.futures
           /\ inflight' =
                  [active |-> TRUE, state |-> state, data |-> data,
                   outcome |-> mid.outcome,
                   before |-> IF is_applied THEN Entry(Ledger, CellOf(state, data))
                              ELSE NoPosition,
                   existed |-> is_applied /\ Present(Ledger, CellOf(state, data))]
    /\ UNCHANGED <<api, ndeals, last, net, clock, dealt, held, reread, user_callback,
                   applied, loading>>

\* the delivery thread makes the deletion test and returns
FinishDeliver ==
    /\ inflight.active
    /\ LET fin == AfterRemove(Ledger, inflight) IN
         /\ _stock_positions' = fin.stock
         /\ _futures_positions' = fin.futures
         /\ net' = NetAfter(inflight.state, inflight.data, inflight.outcome, fin)
    /\ last' = [NoCall EXCEPT !.op = "on_order_deal_event", !.state = inflight.state,
                   !.data = inflight.data, !.outcome = inflight.outcome,
                   !.before = inflight.before,
                   !.notified = UserCallbackCalls(inflight.state, inflight.data,
                                                  user_callback)]
    /\ dealt' = DealtAfter(inflight.state, inflight.data, inflight.outcome)
    /\ applied' = AppliedAfter(inflight.state, inflight.data, inflight.outcome)
    /\ held' = HeldAfter(inflight.state, inflight.data, inflight.outcome)
    /\ reread' = FALSE
    /\ ndeals' = ndeals + 1
    /\ inflight' = NoFlight
    /\ UNCHANGED <<api, clock, user_callback, loading>>

NextThreads ==
    \/ \E d \in SeqDeliveries : BeginDeliver(d[1], d[2])
    \/ FinishDeliver
    \/ \E account \in Accounts \cup {NoAccount} : ListPositions(account)

SpecThreads == InitRead /\ [][NextThreads]_vars

\* a delivery made in the two steps ends in the dicts on_order_deal_event gives
SplitIsWhole ==
    [][(~inflight.active /\ inflight'.active)
          => LET fin == AfterRemove([stock |-> _stock_positions',
                                     futures |-> _futures_positions'], inflight')
                 r == on_order_deal_event(Ledger, inflight'.state, inflight'.data)
             IN  fin.stock = r.stock /\ fin.futures = r.futures]_vars

(* ================================ claims ================================ *)
\* the account keys and equity keys a ledger can hold in this model
StockKeys == StockCodes \X StockOrderCond
FuturesKeys == {FutureCode, FutureFullCode}

\* the last call was a deal callback that reached the ledger update
LastApplied(state) ==
    /\ last.op = "on_order_deal_event"
    /\ last.state = state
    /\ last.outcome = "applied"

\* C1: a cell that was absent and then received deals of positive quantity whose
\* signed sum (Buy +, Sell -) is 0 is absent again.
C1_ZeroSumAbsent ==
    \A c \in Cells :
        (net[c].tracked /\ net[c].sum = 0) => ~Present(Ledger, c)

\* C1 witness: three or more deals on one cell summed to 0 and the last of them
\* removed the entry.
C1_Witness ==
    \E c \in Cells :
        /\ net[c].tracked /\ net[c].n >= 3 /\ net[c].sum = 0
        /\ ~Present(Ledger, c)
        /\ last.op = "on_order_deal_event" /\ last.outcome = "applied"
        /\ CellOf(last.state, last.data) = c
        /\ last.before # NoPosition

\* C2: no equity or derivative entry of the ledger has quantity 0.
C2_NoZeroQuantity ==
    /\ \A a \in DOMAIN _stock_positions : \A k \in DOMAIN _stock_positions[a] :
          _stock_positions[a][k].quantity # 0
    /\ \A a \in DOMAIN _futures_positions : \A k \in DOMAIN _futures_positions[a] :
          _futures_positions[a][k].quantity # 0

\* C3: every equity and derivative entry of the ledger has quantity >= 0; stated
\* for the entries that deals of positive quantity created and changed, so that
\* neither a loaded record nor a deal without quantity is involved.
C3_NonNegativeQuantity ==
    \A c \in Cells :
        (net[c].tracked /\ Present(Ledger, c)) => Entry(Ledger, c).quantity >= 0

\* the dict stored for an account key, empty when the key is absent
Book(d, account_key) == IF account_key \in DOMAIN d THEN d[account_key] ELSE EmptyDict

\* the equity entry of an account key under an equity key, NoPosition when absent
StockAt(sp, account_key, key) ==
    IF key \in DOMAIN Book(sp, account_key) THEN sp[account_key][key] ELSE NoPosition

\* the (primed) last call delivered a well-formed equity deal
EquityDealStep ==
    /\ last'.op = "on_order_deal_event"
    /\ last'.state = "StockDeal"
    /\ last'.data \in WellFormedStockDeals

\* C4: an equity deal on an existing position adds its quantity to the position's
\* when the action equals the position's direction and subtracts it otherwise
\* (the entry is gone when that leaves 0); the direction is kept.
C4_EquityDealAdjustsQuantity ==
    (/\ last.op = "on_order_deal_event" /\ last.state = "StockDeal"
     /\ last.data \in WellFormedStockDeals
     /\ last.before # NoPosition)
    => LET d == last.data
           a == d.account.broker_id \o d.account.account_id
           now == StockAt(_stock_positions, a, <<d.code, d.order_cond>>)
           expected == IF last.before.direction = d.action
                       THEN last.before.quantity + d.quantity
                       ELSE last.before.quantity - d.quantity
       IN  IF expected = 0 THEN now = NoPosition
           ELSE now = [last.before EXCEPT !.quantity = expected]

\* C4 witness: buy 2 then sell 1 on a key that was absent leaves quantity 1.
C4_Witness ==
    \E c \in Cells :
        /\ c[2] = "stock" /\ net[c].tracked /\ net[c].n = 2 /\ net[c].sum = 1
        /\ last.op = "on_order_deal_event" /\ last.state = "StockDeal"
        /\ last.data \in WellFormedStockDeals
        /\ CellOf(last.state, last.data) = c
        /\ last.data.action = "Sell" /\ last.data.quantity = 1
        /\ last.before.direction = "Buy" /\ last.before.quantity = 2
        /\ StockAt(_stock_positions, c[1], <<c[3], c[4]>>).quantity = 1

\* C5: an equity deal for a key without a position creates exactly one entry,
\* under that key: quantity and direction of the deal, yesterday quantity 0 and
\* yesterday offset 0; every other entry is as before.
C5_EquityDealCreates ==
    [][ EquityDealStep =>
          LET d == last'.data
              a == d.account.broker_id \o d.account.account_id
              key == <<d.code, d.order_cond>>
          IN  StockAt(_stock_positions, a, key) = NoPosition =>
                /\ \A b \in AccountKeys : \A k \in StockKeys :
                      StockAt(_stock_positions', b, k) =
                         IF b = a /\ k = key
                         THEN [code |-> d.code, direction |-> d.action,
                               quantity |-> d.quantity, yd_quantity |-> 0,
                               cond |-> d.order_cond, yd_offset_quantity |-> 0]
                         ELSE StockAt(_stock_positions, b, k)
                /\ _futures_positions' = _futures_positions
      ]_vars

\* C5 witness: a short-selling style deal (Sell) created the entry of its key.
C5_Witness ==
    /\ last.op = "on_order_deal_event" /\ last.state = "StockDeal"
    /\ last.data \in WellFormedStockDeals
    /\ last.before = NoPosition
    /\ last.data.action = "Sell"
    /\ StockAt(_stock_positions, last.data.account.broker_id \o last.data.account.account_id,
               <<last.data.code, last.data.order_cond>>).quantity = last.data.quantity

\* C6: an equity deal with order condition c1 leaves the entry of the same
\* account and code under every other order condition as it was (present or not).
C6_KeyIsolation ==
    [][ (/\ last'.op = "on_order_deal_event" /\ last'.state = "StockDeal"
         /\ {"account", "order_cond"} \subseteq last'.data.present
         /\ last'.data.account.present = {"broker_id", "account_id"}
         /\ last'.data.order_cond \in StockOrderCond)
        => LET d == last'.data
               a == d.account.broker_id \o d.account.account_id
           IN  \A c2 \in StockOrderCond \ {d.order_cond} : \A code \in StockCodes :
                  StockAt(_stock_positions', a, <<code, c2>>) =
                     StockAt(_stock_positions, a, <<code, c2>>)
      ]_vars

\* C6 witness: a MarginTrading deal has been applied while the Cash position of
\* the same account and code exists.
C6_Witness ==
    /\ LastApplied("StockDeal")
    /\ last.data \in WellFormedStockDeals
    /\ last.data.order_cond = "MarginTrading"
    /\ StockAt(_stock_positions, last.data.account.broker_id \o last.data.account.account_id,
               <<last.data.code, "Cash">>) # NoPosition
    /\ StockAt(_stock_positions, last.data.account.broker_id \o last.data.account.account_id,
               <<last.data.code, "MarginTrading">>) # NoPosition

C8_MalformedDealRejected ==
    [][ (/\ last'.op = "on_order_deal_event"
         /\ last'.state \in {"StockDeal", "FuturesDeal"}
         /\ ~({"code", "action", "quantity", "account"} \subseteq last'.data.present))
        => /\ _stock_positions' = _stock_positions
           /\ _futures_positions' = _futures_positions
      ]_vars

\* the primary equities account holds an equity position
HoldsEquity(account) ==
    /\ account # NoAccount
    /\ Book(_stock_positions, _get_account_key(account)) # EmptyDict

\* C9: list_positions() returns the primary equities account's equity positions
\* if it holds any, else the primary derivatives account's derivative positions,
\* else nothing; stated for ledgers that hold no entry of quantity 0.
C9_DefaultListing ==
    (last.op = "list_positions" /\ last.account = NoAccount /\ C2_NoZeroQuantity)
    => last.result =
          IF HoldsEquity(api.stock_account)
          THEN Values(Book(_stock_positions, _get_account_key(api.stock_account)))
          ELSE IF api.futopt_account # NoAccount
               THEN Values(Book(_futures_positions,
                                _get_account_key(api.futopt_account)))
               ELSE {}

\* C10: list_positions(account) returns exactly the entries the ledger holds for
\* that account in the account's instrument class, and nothing of the other class.
C10_AccountListing ==
    (last.op = "list_positions" /\ last.account # NoAccount)
    => LET k == _get_account_key(last.account) IN
       /\ last.account.account_type = "Stock" =>
             /\ last.result = Values(Book(_stock_positions, k))
             /\ \A p \in last.result : "cond" \in DOMAIN p
       /\ last.account.account_type = "Future" =>
             /\ last.result = Values(Book(_futures_positions, k))
             /\ \A p \in last.result : "cond" \notin DOMAIN p

\* C10 witness: the first equities account is listed while it holds equity and
\* derivative entries under its key and another account holds equity entries.
C10_Witness ==
    /\ last.op = "list_positions" /\ last.account = StockAcc1
    /\ last.result # {}
    /\ Book(_futures_positions, _get_account_key(StockAcc1)) # EmptyDict
    /\ Book(_stock_positions, _get_account_key(StockAcc2)) # EmptyDict

\* what a caller sees in the list it kept: per cell read, the fields of the element
HeldView == {<<h.cell, h.pos>> : h \in held}

\* C11: a deal event applied after list_positions returned changes neither which
\* positions the returned list holds nor the quantity, direction or order
\* condition of any of them.
C11_ListIsSnapshot ==
    [][ last'.op = "on_order_deal_event" => HeldView' = HeldView ]_vars

\* every kept element that still is the stored object shows the stored fields
HeldLiveIsStored ==
    \A h \in held :
        h.live => /\ Present(Ledger, h.cell)
                  /\ h.pos.quantity = Entry(Ledger, h.cell).quantity
                  /\ h.pos.direction = Entry(Ledger, h.cell).direction

\* C12: a list_positions call leaves both dicts of the ledger as they were, and
\* a list_positions call that follows a list_positions call with the same
\* account, no deal event in between, returns the same positions.
C12_IdempotentRead ==
    [][ last'.op = "list_positions" =>
          /\ _stock_positions' = _stock_positions
          /\ _futures_positions' = _futures_positions
          /\ (last.op = "list_positions" /\ last.account = last'.account)
                => last'.result = last.result
      ]_vars

\* C12 witness: the same read was made twice in a row, after a deal, and
\* returned positions.
C12_Witness ==
    /\ last.op = "list_positions" /\ reread
    /\ last.result # {}
    /\ ndeals > 0

\* the records the venue returns for an account that are of the given class
RecordsOf(venue, account, class) ==
    {r \in {venue.positions[account][i] : i \in 1..Len(venue.positions[account])} :
        r.class = class}

\* the accounts list_accounts() returned
Enumerated(venue) == {venue.accounts[i] : i \in 1..Len(venue.accounts)}

\* the ledger holds for the account exactly what the venue returns for it
HoldsWhatVenueReturned(a) ==
    LET k == a.broker_id \o a.account_id
        sb == Book(_stock_positions, k)
        fb == Book(_futures_positions, k)
        eq == RecordsOf(api, a, "StockPosition")
        dv == RecordsOf(api, a, "FuturePosition")
    IN  /\ a.account_type = "Stock" =>
             /\ DOMAIN sb = {<<r.code, r.cond>> : r \in eq}
             /\ \A r \in eq :
                   /\ sb[<<r.code, r.cond>>].code = r.code
                   /\ sb[<<r.code, r.cond>>].cond = r.cond
                   /\ sb[<<r.code, r.cond>>].direction = r.direction
                   /\ sb[<<r.code, r.cond>>].quantity = r.quantity
                   /\ sb[<<r.code, r.cond>>].yd_quantity = r.yd_quantity
             /\ fb = EmptyDict
        /\ a.account_type = "Future" =>
             /\ DOMAIN fb = {r.code : r \in dv}
             /\ \A r \in dv :
                   /\ fb[r.code].code = r.code
                   /\ fb[r.code].direction = r.direction
                   /\ fb[r.code].quantity = r.quantity
             /\ sb = EmptyDict

C14_FailedAccountSkipped ==
    (last.op = "__init__" /\ api.fails # {})
    => \A a \in Enumerated(api) :
          IF a \in api.fails
          THEN /\ _get_account_key(a) \notin DOMAIN _stock_positions
               /\ _get_account_key(a) \notin DOMAIN _futures_positions
          ELSE HoldsWhatVenueReturned(a)

\* C14 witness: the query of the second enumerated account raised; the accounts
\* enumerated before and after it are loaded.
C14_Witness ==
    /\ last.op = "__init__" /\ api.fails = {StockAcc2}
    /\ api.accounts = AllAccounts
    /\ Book(_stock_positions, _get_account_key(StockAcc1)) # EmptyDict
    /\ Book(_stock_positions, _get_account_key(StockAcc2)) = EmptyDict
    /\ Book(_futures_positions, _get_account_key(FutAcc1)) # EmptyDict

\* C15: list_positions() on an instance whose venue client has neither a primary
\* equities account nor a primary derivatives account returns the empty list,
\* whatever the ledger holds.
C15_NoDefaultAccountEmpty ==
    (/\ last.op = "list_positions" /\ last.account = NoAccount
     /\ api.stock_account = NoAccount /\ api.futopt_account = NoAccount)
    => last.result = {}

\* C15 witness: list_positions() returned nothing with no default account
\* configured while the ledger holds an equity and a derivative position.
C15_Witness ==
    /\ last.op = "list_positions" /\ last.account = NoAccount
    /\ api.stock_account = NoAccount /\ api.futopt_account = NoAccount
    /\ last.result = {}
    /\ \E k \in DOMAIN _stock_positions : _stock_positions[k] # EmptyDict
    /\ \E k \in DOMAIN _futures_positions : _futures_positions[k] # EmptyDict

\* deal data that names its account by top-level broker_id and account_id
IsOfficialFormat(d) ==
    /\ {"broker_id", "account_id", "code", "action", "quantity"} \subseteq d.present
    /\ "account" \notin d.present

\* C16: a StockDeal event in the venue's format, Buy of quantity q, delivered
\* while the account named by its top-level broker_id and account_id holds no
\* equity position, leaves that account with exactly one equity position: the
\* event's code, direction Buy, quantity q.
C16_OfficialDealApplied ==
    [][ (/\ last'.op = "on_order_deal_event" /\ last'.state = "StockDeal"
         /\ IsOfficialFormat(last'.data)
         /\ last'.data.action = "Buy"
         /\ Book(_stock_positions, last'.data.broker_id \o last'.data.account_id)
               = EmptyDict)
        => \E p \in Values(Book(_stock_positions',
                                 last'.data.broker_id \o last'.data.account_id)) :
              /\ Values(Book(_stock_positions',
                             last'.data.broker_id \o last'.data.account_id)) = {p}
              /\ p.code = last'.data.code
              /\ p.direction = "Buy"
              /\ p.quantity = last'.data.quantity
      ]_vars

\* the account a read is about: the one passed, else the primary equities
\* account, else the primary derivatives account
ResolvedAccount(venue, account) ==
    IF account # NoAccount THEN account
    ELSE IF venue.stock_account # NoAccount THEN venue.stock_account
         ELSE venue.futopt_account

\* the (primed) last call is a list_positions call made in this step
ReadStep == last'.op = "list_positions" /\ clock' = clock

\* seconds between the latest applied deal of the account of the read made in
\* this step and that read
SinceDeal == clock - dealt[_get_account_key(ResolvedAccount(api, last'.account))]

\* C17: for every sync threshold T > 0, a list_positions call made less than T
\* seconds after the latest deal of its account asks the venue nothing, and one
\* made T seconds or more after it asks the venue exactly once.
C17_UnstablePeriodSuppression ==
    [][ (/\ ReadStep
         /\ ResolvedAccount(api, last'.account) # NoAccount
         /\ dealt[_get_account_key(ResolvedAccount(api, last'.account))] # Never)
        => \A T \in 1..MaxTime :
              IF SinceDeal < T THEN Len(last'.queries) = 0
              ELSE Len(last'.queries) = 1
      ]_vars

\* the positions the ledger holds for an account in its instrument class
Content(account) ==
    IF account.account_type = "Stock"
    THEN Values(Book(_stock_positions, _get_account_key(account)))
    ELSE IF account.account_type = "Future"
         THEN Values(Book(_futures_positions, _get_account_key(account)))
         ELSE {}

\* C18: no list_positions call asks the venue anything, whatever deals were
\* applied and whatever time has passed; it returns what the ledger holds: for
\* an account passed, that account's positions; for no account, the primary
\* equities account's equity positions when it has any, and otherwise the
\* primary derivatives account's derivative positions or nothing.
C18_ReadsAreLocal ==
    last.op = "list_positions"
    => /\ last.queries = <<>>
       /\ IF last.account # NoAccount THEN last.result = Content(last.account)
          ELSE IF Content(api.stock_account) # {}
               THEN last.result = Content(api.stock_account)
               ELSE last.result \in {Content(api.futopt_account), {}}

\* the positions the venue returns for an account, as ledger entries
Authoritative(venue, account) ==
    IF account.account_type = "Stock"
    THEN {StockPosition(r.code, r.direction, r.quantity, r.yd_quantity, r.cond) :
             r \in RecordsOf(venue, account, "StockPosition")}
    ELSE {FuturesPosition(r.code, r.direction, r.quantity) :
             r \in RecordsOf(venue, account, "FuturePosition")}

\* C18 witness: an account was read a second or more after its latest deal,
\* while the ledger holds for it something else than the venue returns.
C18_Witness ==
    /\ last.op = "list_positions" /\ last.account = StockAcc1
    /\ dealt[_get_account_key(StockAcc1)] # Never
    /\ clock > dealt[_get_account_key(StockAcc1)]
    /\ last.result # {}
    /\ last.result # Authoritative(api, StockAcc1)

\* C19: a list_positions call for an account that has no deal recorded, or whose
\* latest deal is MaxTime seconds or more ago (outside the unstable period of
\* every threshold up to MaxTime), returns what the venue returns for that
\* account.
C19_StableReadIsAuthoritative ==
    [][ (/\ ReadStep
         /\ ResolvedAccount(api, last'.account) \in Enumerated(api)
         /\ \/ dealt[_get_account_key(ResolvedAccount(api, last'.account))] = Never
            \/ SinceDeal >= MaxTime)
        => last'.result = Authoritative(api, ResolvedAccount(api, last'.account))
      ]_vars

\* C27: an equity deal event without order_cond works on the (code, Cash) key of
\* its account as a Cash deal does: it creates the position there if there is
\* none, else adds to or subtracts from its quantity by direction (removing it
\* at 0), and leaves every other entry as it was.
C27_MissingCondIsCash ==
    [][ (/\ last'.op = "on_order_deal_event" /\ last'.state = "StockDeal"
         /\ "order_cond" \notin last'.data.present
         /\ {"code", "action", "quantity", "account"} \subseteq last'.data.present
         /\ last'.data.action \in ActionEnum)
        => LET d == last'.data
               a == d.account.broker_id \o d.account.account_id
               old == StockAt(_stock_positions, a, <<d.code, "Cash">>)
               q == IF old.direction = d.action THEN old.quantity + d.quantity
                    ELSE old.quantity - d.quantity
           IN  /\ StockAt(_stock_positions', a, <<d.code, "Cash">>) =
                     IF old = NoPosition
                     THEN [code |-> d.code, direction |-> d.action,
                           quantity |-> d.quantity, yd_quantity |-> 0,
                           cond |-> "Cash", yd_offset_quantity |-> 0]
                     ELSE IF q = 0 THEN NoPosition
                          ELSE [old EXCEPT !.quantity = q]
               /\ \A b \in AccountKeys : \A k \in StockKeys :
                     (b # a \/ k # <<d.code, "Cash">>)
                     => StockAt(_stock_positions', b, k) = StockAt(_stock_positions, b, k)
               /\ _futures_positions' = _futures_positions
      ]_vars

\* C27 witness: a Sell without order_cond has reduced an existing Cash position
\* while a MarginTrading position of the same code exists.
C27_Witness ==
    /\ LastApplied("StockDeal")
    /\ "order_cond" \notin last.data.present
    /\ last.data.action = "Sell"
    /\ last.before.direction = "Buy" /\ last.before.cond = "Cash"
    /\ StockAt(_stock_positions, _get_account_key(StockAcc1), <<"2330", "Cash">>).quantity
          = last.before.quantity - 1
    /\ StockAt(_stock_positions, _get_account_key(StockAcc1), <<"2330", "MarginTrading">>)
          # NoPosition

\* C30: a StockDeal event leaves the derivative dict as it was and a FuturesDeal
\* event leaves the equity dict as it was, whatever account and code they name.
C30_ClassMapsDisjoint ==
    [][ /\ (last'.op = "on_order_deal_event" /\ last'.state = "StockDeal")
             => _futures_positions' = _futures_positions
        /\ (last'.op = "on_order_deal_event" /\ last'.state = "FuturesDeal")
             => _stock_positions' = _stock_positions
      ]_vars

\* C30 witness: a FuturesDeal naming the account and the code of an existing
\* equity position was applied; both entries exist side by side.
C30_Witness ==
    /\ LastApplied("FuturesDeal")
    /\ last.data = SameCodeFuturesDeal
    /\ StockAt(_stock_positions, _get_account_key(StockAcc1), <<"2330", "Cash">>)
          # NoPosition
    /\ "2330" \in DOMAIN Book(_futures_positions, _get_account_key(StockAcc1))

\* C22: a callback registered by the caller is invoked once for every deal
\* event, after the ledger was changed for that event; an error it raises does
\* not reach the deliverer and the change stays applied
C22_UserCallbackInvoked ==
    (last.op = "on_order_deal_event" /\ user_callback # "None")
        => /\ last.notified = <<[state |-> last.state, data |-> last.data]>>
           /\ last.outcome # "raised"
           /\ last.outcome = "applied"
                  => Entry(Ledger, CellOf(last.state, last.data)) # last.before

\* C23: every equity position of the ledger, loaded at construction or created
\* or changed by deals, has 0 <= yd_offset_quantity <= yd_quantity.
C23_YdOffsetWithinYd ==
    \A k \in DOMAIN _stock_positions : \A key \in DOMAIN _stock_positions[k] :
        LET p == _stock_positions[k][key] IN
        0 <= p.yd_offset_quantity /\ p.yd_offset_quantity <= p.yd_quantity

\* C23 witness: the ledger holds a loaded equity position with a yesterday
\* quantity that the last deal changed, next to one a deal created.
C23_Witness ==
    /\ LastApplied("StockDeal")
    /\ last.before.yd_quantity > 0
    /\ Present(Ledger, CellOf(last.state, last.data))
    /\ Entry(Ledger, CellOf(last.state, last.data)).quantity # last.before.quantity
    /\ \E c \in Cells : /\ c[2] = "stock" /\ Present(Ledger, c)
                        /\ net[c].tracked /\ net[c].n > 0

\* every deal applied to a cell that started absent is in its entry: the
\* entry's signed quantity is the signed sum of the deals, and the cell is
\* absent when that sum is 0
NoDealLost ==
    \A c \in Cells :
        (net[c].tracked /\ net[c].n > 0)
            => IF Present(Ledger, c)
               THEN Signed(Entry(Ledger, c).direction, Entry(Ledger, c).quantity)
                        = net[c].sum
               ELSE net[c].sum = 0

\* C24: with deliveries and reads on different threads, under every
\* interleaving no applied deal is lost, and no list_positions call returns a
\* position of a half-applied deal: one whose quantity reached 0 and that is
\* not deleted yet.
C24_NoPartialMutationObserved ==
    /\ ~inflight.active => NoDealLost
    /\ last.op = "list_positions" => \A p \in last.result : p.quantity # 0

\* C25: a deal never changes the direction of the position it finds: a deal of
\* the opposite direction leaves it with a smaller quantity that is still
\* positive, or deletes it; the position never stands for a net exposure in
\* the opposite direction.
C25_DirectionNeverFlips ==
    (/\ last.op = "on_order_deal_event" /\ last.outcome = "applied"
     /\ last.before.code # "" /\ last.before.quantity > 0
     /\ last.data.quantity > 0)
        => LET c == CellOf(last.state, last.data)
               e == Entry(Ledger, c)
           IN  Present(Ledger, c)
                  => /\ e.direction = last.before.direction
                     /\ _normalize_direction(last.data.action) # last.before.direction
                            => 0 < e.quantity /\ e.quantity < last.before.quantity

\* the (primed) equity deal finds a position of its code under another order
\* condition of the same account, and none under its own
CondChangeStep ==
    /\ EquityDealStep
    /\ ndeals' = ndeals + 1
    /\ LET d == last'.data
           a == d.account.broker_id \o d.account.account_id
       IN  /\ StockAt(_stock_positions, a, <<d.code, d.order_cond>>) = NoPosition
           /\ \E c2 \in StockOrderCond \ {d.order_cond} :
                  StockAt(_stock_positions, a, <<d.code, c2>>) # NoPosition

PriceVariants(d) ==
    {[d EXCEPT !.price = p, !.present = @ \cup {"price"}] : p \in {Price, AltPrice}}
    \cup {Without(d, "price")}

\* C28: the price of a deal event does not influence the ledger: from the same
\* ledger, the same event with any other price, or without price, gives the
\* same ledger (so two runs of the same events that differ in prices only go
\* through the same ledgers, step by step).
C28_PriceDoesNotInfluence ==
    [][ (last'.op = "on_order_deal_event" /\ ndeals' = ndeals + 1)
        => \A v \in PriceVariants(last'.data) :
              LET r == on_order_deal_event(Ledger, last'.state, v) IN
              /\ r.stock = _stock_positions'
              /\ r.futures = _futures_positions'
              /\ r.outcome = last'.outcome
      ]_vars

\* C28 witness: an equity deal without price changed an existing position.
C28_Witness ==
    /\ LastApplied("StockDeal")
    /\ "price" \notin last.data.present
    /\ last.before # NoPosition
    /\ StockAt(_stock_positions, _get_account_key(last.data.account),
               <<last.data.code, last.data.order_cond>>).quantity
          = last.before.quantity + last.data.quantity

\* the two cells the paired deals work on
PairStockCell == <<_get_account_key(StockAcc1), "stock", "2330", "Cash">>
PairFuturesCell == <<_get_account_key(FutAcc1), "futures", FutureCode, "">>

\* C29: after any sequence of deals on one code given to both ledgers, the
\* derivative position is present exactly when the equity position under the
\* one order condition is, with the same direction and the same quantity.
C29_FuturesFollowEquityRule ==
    (ndeals % 2 = 0)
        => /\ Present(Ledger, PairFuturesCell) = Present(Ledger, PairStockCell)
           /\ Entry(Ledger, PairFuturesCell).direction
                 = Entry(Ledger, PairStockCell).direction
           /\ Entry(Ledger, PairFuturesCell).quantity
                 = Entry(Ledger, PairStockCell).quantity

\* C29 witness: three deals went through both ledgers, one of them closed the
\* position and the next opened it in the other direction: both hold Sell 1.
C29_Witness ==
    /\ ndeals = 6
    /\ LastApplied("FuturesDeal")
    /\ net[PairFuturesCell].n = 3 /\ net[PairFuturesCell].sum = 0 - 1
    /\ net[PairStockCell].n = 3
    /\ Entry(Ledger, PairFuturesCell).direction = "Sell"
    /\ Entry(Ledger, PairFuturesCell).quantity = 1
    /\ Entry(Ledger, PairStockCell).quantity = 1

\* C31: the derivative position a FuturesDeal creates is identified by the
\* deal's full contract code: for code TXF and full_code TXFJ4 the ledger
\* holds the position under TXFJ4, with code TXFJ4.
C31_FuturesKeyedByFullCode ==
    (/\ LastApplied("FuturesDeal")
     /\ last.data \in WellFormedFuturesDeals
     /\ last.before = NoPosition)
        => LET book == Book(_futures_positions, _get_account_key(last.data.account)) IN
           /\ last.data.full_code \in DOMAIN book
           /\ book[last.data.full_code].code = last.data.full_code

\* C32: when list_accounts() raises at startup, the constructor still returns:
\* the instance starts with an empty ledger, reads are served from it and deal
\* events update it.
C32_EnumerationFailureCaught ==
    (api.list_accounts_raises /\ last.op = "__init__")
        => /\ last.outcome # "raised"
           /\ _stock_positions = EmptyDict /\ _futures_positions = EmptyDict

\* C33: on_order_deal_event returns normally for every event; a deal whose
\* action is no Buy/Sell value, or whose account lacks the broker or the
\* account identifier, is dropped: nothing is raised and the ledger is as
\* before.
C33_DeliveryNeverRaises ==
    [][ (last'.op = "on_order_deal_event" /\ ndeals' = ndeals + 1)
        => /\ last'.outcome # "raised"
           /\ (\/ _normalize_direction(Get(last'.data, "action", "")) = "KeyError"
               \/ Get(last'.data, "account", NoAccountDict).present
                     \notin {{}, {"broker_id", "account_id"}})
                 => /\ _stock_positions' = _stock_positions
                    /\ _futures_positions' = _futures_positions
      ]_vars

\* C34: a deal event never changes the yesterday quantity of an equity
\* position: every position that exists before and after the deal, the one
\* the deal works on included, has the yesterday quantity it had.
C34_YdQuantityKept ==
    [][ (last'.op = "on_order_deal_event" /\ ndeals' = ndeals + 1)
        => \A b \in AccountKeys : \A k \in StockKeys :
              (StockAt(_stock_positions, b, k) # NoPosition
               /\ StockAt(_stock_positions', b, k) # NoPosition)
                 => StockAt(_stock_positions', b, k).yd_quantity
                       = StockAt(_stock_positions, b, k).yd_quantity
      ]_vars

\* C34 witness: a Sell reduced a loaded Buy position that carries a yesterday
\* quantity, and the position is still there with that yesterday quantity.
C34_Witness ==
    /\ LastApplied("StockDeal")
    /\ last.data.action = "Sell" /\ last.before.direction = "Buy"
    /\ last.before.yd_quantity > 0
    /\ LET e == Entry(Ledger, CellOf(last.state, last.data)) IN
         /\ e.quantity = last.before.quantity - last.data.quantity
         /\ e.quantity > 0
         /\ e.yd_quantity = last.before.yd_quantity

Min(a, b) == IF a <= b THEN a ELSE b

\* C35: while an equity position carries a yesterday quantity > 0, a deal of
\* the opposite direction and quantity q raises its yesterday offset by
\* min(q, yesterday quantity - yesterday offset), and a deal of its own
\* direction leaves the yesterday offset as it was.
C35_YdOffsetAccounting ==
    (/\ LastApplied("StockDeal")
     /\ last.before # NoPosition /\ last.before.yd_quantity > 0
     /\ last.data.quantity > 0
     /\ Present(Ledger, CellOf(last.state, last.data)))
        => LET e == Entry(Ledger, CellOf(last.state, last.data))
               b == last.before
           IN  e.yd_offset_quantity =
                  IF _normalize_direction(last.data.action) = b.direction
                  THEN b.yd_offset_quantity
                  ELSE b.yd_offset_quantity
                         + Min(last.data.quantity, b.yd_quantity - b.yd_offset_quantity)

\* the quantity a cell stands for: + for Buy, - for Sell, 0 when absent
SignedEntry(ledger, c) ==
    IF Present(ledger, c)
    THEN Signed(Entry(ledger, c).direction, Entry(ledger, c).quantity)
    ELSE 0

\* C36: in every state, for every key of every account, the stored quantity
\* signed by the stored direction (0 for an absent key) is the signed quantity
\* loaded at construction plus the signed sum of the deals applied to the key.
C36_Conservation ==
    \A c \in Cells :
        SignedEntry(Ledger, c) = SignedEntry(Construct(api), c) + applied[c]

\* C36 witness: three equity deals with signed sum -1 were applied to a key
\* loaded as Buy 2, which now holds Buy 1, and a derivative key received a
\* deal as well.
C36_Witness ==
    /\ api.positions = SnapshotHeld /\ api.fails = {}
    /\ ndeals = 4
    /\ SignedEntry(Construct(api), PairStockCell) = 2
    /\ applied[PairStockCell] = 0 - 1
    /\ SignedEntry(Ledger, PairStockCell) = 1
    /\ applied[PairFuturesCell] # 0
    /\ last.state = "StockDeal" /\ last.data.quantity = 2

\* the ledger after two deliveries in a row
AfterTwo(ledger, d1, d2) ==
    LET r == on_order_deal_event(ledger, d1[1], d1[2]) IN
    on_order_deal_event([stock |-> r.stock, futures |-> r.futures], d2[1], d2[2])

\* C37: the entry a multiset of deals of positive quantity leaves on a key
\* that started absent does not depend on the order of delivery.  Every order
\* is reached from every other by swapping deals delivered one after the
\* other, so: after any deals on such a key, two further deals on it leave the
\* same entry (present or not, direction, quantity) in either order.
C37_OrderIndependence ==
    \A d1, d2 \in SeqDeliveries :
        LET c == CellOf(d1[1], d1[2]) IN
        (CellOf(d2[1], d2[2]) = c /\ net[c].tracked)
            => /\ Present(AfterTwo(Ledger, d1, d2), c) = Present(AfterTwo(Ledger, d2, d1), c)
               /\ Entry(AfterTwo(Ledger, d1, d2), c) = Entry(AfterTwo(Ledger, d2, d1), c)

\* C38: the handler is registered before the initial load, and a deal event
\* delivered while the load of its account is in progress is neither lost nor
\* counted twice: once construction is over, every key holds the quantity of
\* the venue's snapshot adjusted by exactly the deals the snapshot does not
\* contain.
C38_StartupRace ==
    loading.pc = "done"
        => \A c \in Cells :
              SignedEntry(Ledger, c) = SignedEntry(Construct(api), c) + applied[c]

\* C39: accounts with different (broker_id, account_id) pairs never get the
\* same account key, so a deal for one of them changes nothing list_positions
\* returns for another; and the key of an account dict is the key of the
\* Account with the same pair.
C39_AccountKeyInjective ==
    [][ (last'.op = "on_order_deal_event" /\ ndeals' = ndeals + 1
         /\ last'.data \in {d[2] : d \in KeyDeliveries})
        => /\ \A B \in KeyAccounts :
                <<B.broker_id, B.account_id>> #
                   <<last'.data.account.broker_id, last'.data.account.account_id>>
                => /\ _get_account_key(B) # _get_account_key(last'.data.account)
                   /\ ListAccount([stock |-> _stock_positions',
                                   futures |-> _futures_positions'], B)
                        = ListAccount(Ledger, B)
           /\ \A B \in KeyAccounts :
                _get_account_key(AccountDict(B)) = _get_account_key(B)
      ]_vars

\* C40: an event whose state is neither StockDeal nor FuturesDeal leaves both
\* position dicts as they were, whatever its data holds, and raises nothing.
C40_NonDealEventIgnored ==
    [][ (last'.op = "on_order_deal_event" /\ ndeals' = ndeals + 1
         /\ last'.state \notin {"StockDeal", "FuturesDeal"})
        => /\ _stock_positions' = _stock_positions
           /\ _futures_positions' = _futures_positions
           /\ last'.outcome = "ignored"
      ]_vars

\* C40 witness: an order event carrying the data of a well-formed deal for a
\* key the ledger holds was delivered, and the entry is as it was.
C40_Witness ==
    /\ last.op = "on_order_deal_event"
    /\ last.state = "StockOrder"
    /\ last.outcome = "ignored"
    /\ last.data = BaseStockDeal
    /\ Entry(Ledger, CellOf("StockDeal", BaseStockDeal)) # NoPosition

====
